---- MODULE Spec2Model ----
(***************************************************************************)
(* Two-tier response cache of prd_generator (utils/cache_manager.py):      *)
(* CacheManager.get/set/invalidate/clear/repair over an in-memory dict and *)
(* one pickle file per key, and the memoizing wrapper built by cached();   *)
(* and the callers of the cache: main() (main.py), generate_with_retry     *)
(* (utils/ollama_client.py), with the progress reporter of the asset       *)
(* generation (utils/progress_reporter.py).                                *)
(***************************************************************************)
EXTENDS Integers, Sequences, FiniteSets, TLC

VARIABLES memory_cache, disk, now, faults, last, shadow, lock, pc, temp,
          main, reporter, client, wrap

vars == <<memory_cache, disk, now, faults, last, shadow, lock, pc, temp,
          main, reporter, client, wrap>>

\* the lock of the store, the position of each thread inside the operation
\* it runs, and the temporary files "<key>.cache.tmp"
threads == <<lock, pc, temp>>

\* the callers of the store and their neighbours: the run of main(), the
\* ProgressReporter of generate_assets, and OllamaClient.generate_with_retry
apps == <<main, reporter, client, wrap>>

(* ------------------------------ bounds --------------------------------- *)
\* last clock reading of a run (time.time(), in whole seconds)
MaxTime == 2
\* CacheManager.ttl, scaled down from the default 86400
ttl == 1
\* CacheManager.max_size, scaled down from the default 1000
max_size == 1
\* the ttl handed to cached() when the wrapper is built (7200 for
\* OllamaClient.generate), scaled down and below CacheManager.ttl
cached_ttl == 0
\* how many record files may be damaged out-of-band at the same time
MaxCorrupt == 1
\* how many I/O calls of the store the filesystem refuses in a run
MaxFaults == 1
\* how many wrapped LLM calls the processing of one PRD makes
MaxCalls == 2
\* the largest step count a caller passes to the progress reporter
MaxSteps == 2
\* max_retries of generate_with_retry
max_retries == 2
\* how deep wrapped calls nest: f called through its wrapper calls a wrapped
\* function itself
MaxDepth == 2

(* ------------------------------ values --------------------------------- *)
\* Python's None: the value get() returns for a miss, and a legal cached value
NoneV == "None"
\* the texts the API methods of the LLM client return for a failed request;
\* they start with "Error:"
ErrorResults == {"Error: timeout", "Error: status 500"}
\* values pickle.dump can serialize
Picklable == {"v1", "v2", NoneV} \cup ErrorResults
\* a value pickle.dump rejects with TypeError (a lock, a generator)
Values == Picklable \cup {"lock"}
\* the values the callers of set pass
SetValues == {"v1", "v2", "lock"}

\* argument tuples the wrapped function is called with
Args == {"a1", "aNone", "aLock", "aRaise"}

\* argument tuples whose rendering raises (an object whose __repr__ raises)
Unrenderable == {"aBad1", "aBad2"}

\* the wrapped function f, pure: its result or the exception it raises
func(a) ==
    CASE a = "a1"     -> [exc |-> "none", ret |-> "v1"]
      [] a = "aNone"  -> [exc |-> "none", ret |-> NoneV]
      [] a = "aLock"  -> [exc |-> "none", ret |-> "lock"]
      [] a = "aBad1"  -> [exc |-> "none", ret |-> "v1"]
      [] a = "aBad2"  -> [exc |-> "none", ret |-> "v2"]
      [] OTHER        -> [exc |-> "ValueError", ret |-> "-"]

\* keyword arguments: the items of a dict in insertion order
KwX == [name |-> "x", value |-> "1"]

KwY == [name |-> "y", value |-> "2"]

Kwargs == {<<>>, <<KwX>>, <<KwY>>, <<KwX, KwY>>, <<KwY, KwX>>}

\* the order of the keyword names as strings: "x" < "y"
KwRank(name) == IF name = "x" THEN 1 ELSE 2

RECURSIVE InsertByName(_, _)
InsertByName(s, e) ==
    IF s = <<>> THEN <<e>>
    ELSE IF KwRank(e.name) < KwRank(Head(s).name) THEN <<e>> \o s
    ELSE <<Head(s)>> \o InsertByName(Tail(s), e)

\* sorted(kwargs.items())
RECURSIVE sorted_kwargs(_)
sorted_kwargs(kw) ==
    IF kw = <<>> THEN <<>>
    ELSE InsertByName(sorted_kwargs(SubSeq(kw, 1, Len(kw) - 1)), kw[Len(kw)])

\* str of a list of (name, value) items
RECURSIVE str_items(_)
str_items(items) ==
    IF items = <<>> THEN ""
    ELSE "(" \o Head(items).name \o "," \o Head(items).value \o ")"
         \o str_items(Tail(items))

\* str(args) + str(sorted(kwargs.items()))
args_str(a, kw) == "(" \o a \o ",)[" \o str_items(sorted_kwargs(kw)) \o "]"

\* _get_cache_key as it would be without sorted(): the keyword arguments
\* rendered in call order
get_cache_key_unsorted(a, kw, t) ==
    IF a \in Unrenderable THEN "fallback_" \o ToString(t)
    ELSE "md5(" \o "(" \o a \o ",)[" \o str_items(kw) \o "]" \o ")"

\* CacheManager._get_cache_key at clock reading t: the md5 hex digest of the
\* rendered arguments (taken as collision-free), or the timestamp-based
\* fallback when rendering or encoding raises
get_cache_key(a, kw, t) ==
    IF a \in Unrenderable THEN "fallback_" \o ToString(t)
    ELSE "md5(" \o args_str(a, kw) \o ")"

\* the key the wrapper builds at clock reading t for a call f'(a):
\* "<module>.<name>:<digest>"
cache_key(a, t) == "m.f:" \o get_cache_key(a, <<>>, t)

WrapKeys == {cache_key(a, t) : a \in Args \cup Unrenderable, t \in 0..MaxTime}

\* the keys direct callers of the store use
StoreKeys == {"k1", "k2"}

Keys == WrapKeys \cup StoreKeys

(* --------------------------- durable records --------------------------- *)
\* what the file <key>.cache holds: nothing, a pickled {'value','timestamp'}
\* mapping, or damaged content
NoFile == [kind |-> "absent", value |-> "-", ts |-> 0]

\* pickle.dump({'value': value, 'timestamp': timestamp}, f)
pickle_dump(value, timestamp) == [kind |-> "record", value |-> value, ts |-> timestamp]

\* the exception pickle.dump raises for a value, "none" when it serializes
pickle_dump_exc(value) ==
    IF value \in Picklable THEN "none" ELSE "TypeError"

\* damaged contents: garbage bytes, a zero-length file, a pickled non-mapping,
\* a pickled mapping without 'timestamp'
CorruptKinds == {"garbage", "empty", "nonmap", "nokey"}

\* the exception pickle.load(f) raises on a file, "none" when it loads
pickle_load_exc(file) ==
    CASE file.kind = "garbage" -> "UnpicklingError"
      [] file.kind = "empty"   -> "EOFError"
      [] OTHER                 -> "none"

\* the exception raised by open + pickle.load + data['timestamp'] in get
read_exc(file, fault) ==
    IF fault = "open" THEN "OSError"
    ELSE IF pickle_load_exc(file) # "none" THEN pickle_load_exc(file)
    ELSE CASE file.kind = "nonmap" -> "TypeError"
           [] file.kind = "nokey"  -> "KeyError"
           [] OTHER                -> "none"

\* except (pickle.PickleError, OSError, IOError, KeyError) in get
GetCaught == {"UnpicklingError", "PicklingError", "OSError", "KeyError"}

\* except (pickle.PickleError, OSError, IOError) in set
SetCaught == {"UnpicklingError", "PicklingError", "OSError"}

(* ----------------------------- memory tier ----------------------------- *)
\* memory_cache is a dict: a sequence of entries in insertion order
MemKeys(m) == {m[i].key : i \in 1..Len(m)}

MemHas(m, key) == key \in MemKeys(m)

MemGet(m, key) == m[CHOOSE i \in 1..Len(m) : m[i].key = key]

\* del self.memory_cache[key]
MemDel(m, key) == SelectSeq(m, LAMBDA e : e.key # key)

\* self.memory_cache[key] = (value, timestamp): an existing key keeps its place
MemPut(m, key, value, timestamp) ==
    LET e == [key |-> key, value |-> value, ts |-> timestamp]
    IN IF MemHas(m, key)
       THEN [i \in 1..Len(m) |-> IF m[i].key = key THEN e ELSE m[i]]
       ELSE Append(m, e)

RECURSIVE InsertByTs(_, _)
InsertByTs(s, e) ==
    IF s = <<>> THEN <<e>>
    ELSE IF e.ts < Head(s).ts THEN <<e>> \o s
    ELSE <<Head(s)>> \o InsertByTs(Tail(s), e)

\* sorted(self.memory_cache.items(), key=lambda x: x[1][1]): stable
RECURSIVE sorted_items(_)
sorted_items(m) ==
    IF m = <<>> THEN <<>>
    ELSE InsertByTs(sorted_items(SubSeq(m, 1, Len(m) - 1)), m[Len(m)])

Max(a, b) == IF a >= b THEN a ELSE b

\* the keys of sorted_items[:max(1, len(sorted_items) // 10)]
items_to_remove(m) ==
    LET s == sorted_items(m)
        cnt == Max(1, Len(s) \div 10)
    IN {s[i].key : i \in 1..cnt}

\* "Limit memory cache size" in set
limit_memory(m) ==
    IF Len(m) > max_size
    THEN SelectSeq(m, LAMBDA e : e.key \notin items_to_remove(m))
    ELSE m

(* ------------------------------ operations ----------------------------- *)
Result(m, d, ret, exc) == [mem |-> m, disk |-> d, ret |-> ret, exc |-> exc]

GetFaults == {"none", "open", "remove"}

\* get as it would be if a hit stamped the memory entry with the time of the
\* read
get_touch(m, d, key, t, fault) ==
    LET inMem == MemHas(m, key)
        memValid == inMem /\ t - MemGet(m, key).ts <= ttl
        m1 == IF inMem THEN MemDel(m, key) ELSE m
        file == d[key]
        rexc == read_exc(file, fault)
        removed == IF fault = "remove" THEN d ELSE [d EXCEPT ![key] = NoFile]
    IN IF memValid
       THEN Result(MemPut(m, key, MemGet(m, key).value, t), d, MemGet(m, key).value, "none")
       ELSE IF file.kind = "absent" THEN Result(m1, d, NoneV, "none")
       ELSE IF rexc = "none"
            THEN IF t - file.ts <= ttl
                 THEN Result(MemPut(m1, key, file.value, t), d, file.value, "none")
                 ELSE Result(m1, removed, NoneV, "none")
       ELSE IF rexc \in GetCaught THEN Result(m1, removed, NoneV, "none")
       ELSE Result(m1, d, "-", rexc)

\* CacheManager.get; fault is the I/O call the filesystem refuses
get(m, d, key, t, fault) ==
    LET inMem == MemHas(m, key)
        memValid == inMem /\ t - MemGet(m, key).ts <= ttl
        m1 == IF inMem THEN MemDel(m, key) ELSE m
        file == d[key]
        rexc == read_exc(file, fault)
        removed == IF fault = "remove" THEN d ELSE [d EXCEPT ![key] = NoFile]
    IN IF memValid THEN Result(m, d, MemGet(m, key).value, "none")
       ELSE IF file.kind = "absent" THEN Result(m1, d, NoneV, "none")
       ELSE IF rexc = "none"
            THEN IF t - file.ts <= ttl
                 THEN Result(MemPut(m1, key, file.value, file.ts), d, file.value, "none")
                 ELSE Result(m1, removed, NoneV, "none")
       ELSE IF rexc \in GetCaught THEN Result(m1, removed, NoneV, "none")
       ELSE Result(m1, d, "-", rexc)

\* "write": _ensure_cache_directory returns False, or open or pickle.dump
\* raises OSError; "remove": os.remove of the old record fails; "rename":
\* os.rename fails
SetFaults == {"none", "write", "remove", "rename"}

\* set as it would be with the final os.rename left out: the record stays in
\* the temporary file, and set still reports success
set_no_rename(m, d, key, value, t, fault) ==
    [mem |-> limit_memory(MemPut(m, key, value, t)), disk |-> d,
     ret |-> IF fault = "none" /\ pickle_dump_exc(value) = "none" THEN "True" ELSE "False",
     exc |-> "none"]

\* CacheManager.set; fault is the I/O call the filesystem refuses
set(m, d, key, value, t, fault) ==
    LET m2 == limit_memory(MemPut(m, key, value, t))
        dexc == pickle_dump_exc(value)
    IN IF fault = "write" THEN Result(m2, d, "False", "none")
       ELSE IF dexc # "none"
            THEN IF dexc \in SetCaught THEN Result(m2, d, "False", "none")
                 ELSE Result(m2, d, "-", dexc)
       ELSE IF fault = "remove" /\ d[key].kind # "absent" THEN Result(m2, d, "False", "none")
       ELSE IF fault = "rename" THEN Result(m2, [d EXCEPT ![key] = NoFile], "False", "none")
       ELSE Result(m2, [d EXCEPT ![key] = pickle_dump(value, t)], "True", "none")

\* invalidate as it would be if it dropped the memory entry only and left the
\* record file in place
invalidate_memory_only(m, d, key, fault) ==
    Result(MemDel(m, key), d, IF MemHas(m, key) THEN "True" ELSE "False", "none")

\* CacheManager.invalidate
invalidate(m, d, key, fault) ==
    LET exists == d[key].kind # "absent"
        found == MemHas(m, key) \/ (exists /\ fault # "remove")
        d1 == IF exists /\ fault # "remove" THEN [d EXCEPT ![key] = NoFile] ELSE d
    IN Result(MemDel(m, key), d1, IF found THEN "True" ELSE "False", "none")

Files(d) == {k \in Keys : d[k].kind # "absent"}

\* the files pickle.load cannot deserialize
Undeserializable(d) == {k \in Files(d) : pickle_load_exc(d[k]) # "none"}

\* clear as it would be if it emptied the memory tier and left the record
\* files in place
clear_memory_only(m, d, failing) ==
    [mem |-> <<>>, disk |-> d, count |-> Len(m)]

\* CacheManager.clear; failing holds the files os.remove refuses to delete
clear(m, d, failing) ==
    LET gone == Files(d) \ failing
    IN [mem |-> <<>>,
        disk |-> [k \in Keys |-> IF k \in gone THEN NoFile ELSE d[k]],
        count |-> Len(m) + Cardinality(gone)]

\* repair as it would be if it deleted every record file it scans
repair_every_file(m, d, failing) ==
    [mem |-> m,
     disk |-> [k \in Keys |-> IF k \in Files(d) \ failing THEN NoFile ELSE d[k]],
     count |-> Cardinality(Files(d) \ failing)]

\* CacheManager.repair; failing holds the files os.remove refuses to delete
repair(m, d, failing) ==
    LET bad == {k \in Files(d) : pickle_load_exc(d[k]) # "none"}
        gone == bad \ failing
    IN [mem |-> m,
        disk |-> [k \in Keys |-> IF k \in gone THEN NoFile ELSE d[k]],
        count |-> Cardinality(gone)]

\* the wrapper as it would be without its try/except blocks: what get or set
\* raises reaches the caller
wrapper_unguarded(m, d, a, t, gfault, sfault) ==
    LET key == cache_key(a, t)
        g == get(m, d, key, t, gfault)
        fo == func(a)
        s == set(g.mem, g.disk, key, fo.ret, t, sfault)
    IN IF g.exc # "none"
       THEN [mem |-> g.mem, disk |-> g.disk, ret |-> "-", exc |-> g.exc,
             fcalls |-> 0, getExc |-> g.exc, setExc |-> "none", stored |-> "-"]
       ELSE IF g.ret # NoneV
       THEN [mem |-> g.mem, disk |-> g.disk, ret |-> g.ret, exc |-> "none",
             fcalls |-> 0, getExc |-> "none", setExc |-> "none", stored |-> "-"]
       ELSE IF fo.exc # "none"
       THEN [mem |-> g.mem, disk |-> g.disk, ret |-> "-", exc |-> fo.exc,
             fcalls |-> 1, getExc |-> "none", setExc |-> "none", stored |-> "-"]
       ELSE [mem |-> s.mem, disk |-> s.disk,
             ret |-> IF s.exc = "none" THEN fo.ret ELSE "-", exc |-> s.exc,
             fcalls |-> 1, getExc |-> "none", setExc |-> s.exc, stored |-> s.ret]

\* the wrapper cached() builds around func, called with the arguments a:
\* the outcome, the number of times func ran, and what get and set raised
wrapper(m, d, a, t, gfault, sfault) ==
    LET key == cache_key(a, t)
        g == get(m, d, key, t, gfault)
        hit == g.exc = "none" /\ g.ret # NoneV
        fo == func(a)
        s == set(g.mem, g.disk, key, fo.ret, t, sfault)
    IN IF hit
       THEN [mem |-> g.mem, disk |-> g.disk, ret |-> g.ret, exc |-> "none",
             fcalls |-> 0, getExc |-> "none", setExc |-> "none", stored |-> "-"]
       ELSE IF fo.exc # "none"
            \* "except Exception" around the whole body runs func a second time
            THEN [mem |-> g.mem, disk |-> g.disk, ret |-> "-", exc |-> fo.exc,
                  fcalls |-> 2, getExc |-> g.exc, setExc |-> "none", stored |-> "-"]
       ELSE [mem |-> s.mem, disk |-> s.disk, ret |-> fo.ret, exc |-> "none",
             fcalls |-> 1, getExc |-> g.exc, setExc |-> s.exc, stored |-> s.ret]

\* invalidate_cache as it would be if it derived its key from other
\* arguments than the ones it is given
invalidate_cache_other_key(m, d, a, t, fault) ==
    invalidate(m, d, cache_key("a1", t), fault)

\* the accessor cached() attaches to the wrapper: invalidate_cache(a) at
\* clock reading t
invalidate_cache(m, d, a, t, fault) ==
    invalidate(m, d, cache_key(a, t), fault)

(* -------------------------------- state -------------------------------- *)
\* shadow[key]: the value and timestamp of the most recent set(key, .), and
\* what became of it: "durable" (set returned True and its record was not
\* damaged or lost to a failed read since), "memory" (the durable write did
\* not succeed, or the record was damaged since), "dropped" (an invalidate
\* or clear came after it), "never" (no set yet); "off" for a key whose
\* history is not followed
NoShadow == [val |-> "-", ts |-> 0, st |-> "never"]

OffShadow == [val |-> "-", ts |-> 0, st |-> "off"]

\* last: the operation just performed, its arguments and its outcome
NoOp == [op |-> "init", key |-> "-", arg |-> "-", val |-> "-", ret |-> "-",
         exc |-> "none", fault |-> "none", src |-> "-", count |-> 0,
         fcalls |-> 0, getExc |-> "none", setExc |-> "none",
         again |-> FALSE, before |-> "-", beforeCalls |-> 0,
         kw |-> <<>>, kw2 |-> <<>>, key2 |-> "-"]

\* the threads that call the store
Threads == {"t1", "t2"}

\* a thread outside every operation of the store
IdlePc == [op |-> "-", key |-> "-", val |-> "-", step |-> "idle", ret |-> "-",
           exc |-> "none", fault |-> "none", failing |-> {}, count |-> 0,
           data |-> NoFile, ts |-> 0, m0 |-> <<>>, d0 |-> <<>>]

\* main() as it would be with cache.repair() moved behind the handling of
\* the cache options
main_next_repair_late(stmt) ==
    CASE stmt = "start"  -> "env"
      [] stmt = "env"    -> "args"
      [] stmt = "args"   -> "clear"
      [] stmt = "clear"  -> "repair"
      [] stmt = "repair" -> "ttl"
      [] stmt = "ttl"    -> "config"
      [] OTHER           -> "process"

\* the statements of main() in program order: cache.repair(),
\* load_env_file(), the argument parser, --clear-cache, --no-cache, the
\* configuration and the input, generate_prd_from_prompt
main_next(stmt) ==
    CASE stmt = "start"  -> "repair"
      [] stmt = "repair" -> "env"
      [] stmt = "env"    -> "args"
      [] stmt = "args"   -> "clear"
      [] stmt = "clear"  -> "ttl"
      [] stmt = "ttl"    -> "config"
      [] OTHER           -> "process"

\* main() about to run: pc is the statement it is at ("done": it returned,
\* "exit": sys.exit or an exception ended it, at the statement aborted), log
\* the operations invoked on the process-wide cache so far, ttl the value of
\* cache.ttl ("default" until main assigns it), raised whether cache.repair()
\* or cache.clear() raised, calls the wrapped calls made so far
IdleMain == [pc |-> main_next("start"), clear_cache |-> FALSE, no_cache |-> FALSE,
             log |-> <<>>, ttl |-> "default", raised |-> {}, aborted |-> "-",
             calls |-> 0]

\* a thread outside the methods of the progress reporter: op is the method
\* it called, pc its position in it, steps the argument of update, ret what
\* the method returned
NoInfo == [step |-> 0, total |-> 0, completed |-> FALSE, set |-> FALSE]
IdleCaller == [pc |-> "idle", op |-> "-", steps |-> 0, ret |-> NoInfo]

\* ProgressReporter.__init__: total_steps = max(1, total_steps),
\* current_step = 0, lock = Lock(), nobody inside
IdleReporter == [lock |-> "free", current_step |-> 0,
                 total_steps |-> IF MaxSteps > 1 THEN MaxSteps ELSE 1,
                 at |-> [t \in Threads |-> IdleCaller]]

\* the LLM client outside generate_with_retry: prompt is the argument of
\* the call, retries and last_response are the locals of the loop, result what the call returned, executed one
\* entry per attempt of the call, TRUE when the attempt ran the body of
\* generate, which sends the API request
IdleClient == [pc |-> "idle", prompt |-> "-", retries |-> 0, last_response |-> "",
               result |-> "-", executed |-> <<>>]

\* no operation in progress: threading.RLock() free, no temporary file
InitThreads ==
    /\ lock = "free"
    /\ pc = [t \in Threads |-> IdlePc]
    /\ temp = [k \in Keys |-> NoFile]

\* main() not started, no reporter call, no generate_with_retry and no
\* wrapped call under way
InitApps ==
    /\ main = IdleMain
    /\ reporter = IdleReporter
    /\ client = IdleClient
    /\ wrap = [t \in Threads |-> <<>>]

Init ==
    /\ memory_cache = <<>>
    /\ disk = [k \in Keys |-> NoFile]
    /\ now = 0
    /\ faults = 0
    /\ last = NoOp
    /\ shadow = [k \in Keys |-> OffShadow]
    /\ InitThreads
    /\ InitApps

\* the key whose history is followed (the direct callers' keys are alike)
TrackedKey == "k1"

\* the same store, with the history of TrackedKey followed
InitTrack ==
    /\ memory_cache = <<>>
    /\ disk = [k \in Keys |-> NoFile]
    /\ now = 0
    /\ faults = 0
    /\ last = NoOp
    /\ shadow = [k \in Keys |-> IF k = TrackedKey THEN NoShadow ELSE OffShadow]
    /\ InitThreads
    /\ InitApps

\* an operation may meet a refused I/O call while the run's budget lasts
MayFail(hit) == hit => faults < MaxFaults

Faulty(hit) == faults' = IF hit THEN faults + 1 ELSE faults

\* the shadow of key after a set that returned ret
ShadowSet(key, value, ret) ==
    IF shadow[key].st = "off" THEN shadow
    ELSE [shadow EXCEPT ![key] = [val |-> value, ts |-> now,
                                  st |-> IF ret = "True" THEN "durable" ELSE "memory"]]

\* the shadow after the records of the keys in ks were damaged ("memory") or
\* the keys invalidated ("dropped")
ShadowMark(ks, st) ==
    [k \in Keys |-> IF k \in ks /\ (shadow[k].st = "durable"
                                      \/ (shadow[k].st = "memory" /\ st = "dropped"))
                    THEN [shadow[k] EXCEPT !.st = st] ELSE shadow[k]]

\* the tier a get takes its result from, "-" when it finds no valid entry
GetSrc(key, fault) ==
    IF MemHas(memory_cache, key) /\ now - MemGet(memory_cache, key).ts <= ttl
    THEN "mem"
    ELSE IF read_exc(disk[key], fault) = "none" /\ disk[key].kind = "record"
            /\ now - disk[key].ts <= ttl
         THEN "disk" ELSE "-"

Get ==
    \E key \in StoreKeys, fault \in GetFaults :
        /\ MayFail(fault # "none")
        /\ \E r \in {get(memory_cache, disk, key, now, fault)} :
              /\ fault # "none" => r # get(memory_cache, disk, key, now, "none")
              /\ Faulty(fault # "none")
              /\ memory_cache' = r.mem
              /\ disk' = r.disk
              /\ last' = [NoOp EXCEPT !.op = "get", !.key = key, !.ret = r.ret,
                                      !.exc = r.exc, !.fault = fault,
                                      !.src = GetSrc(key, fault)]
              /\ shadow' = IF fault = "open" THEN ShadowMark({key}, "memory")
                           ELSE shadow
              /\ UNCHANGED <<now, threads, apps>>

Set ==
    \E key \in StoreKeys, value \in SetValues, fault \in SetFaults :
        /\ MayFail(fault # "none")
        /\ \E r \in {set(memory_cache, disk, key, value, now, fault)} :
              /\ fault # "none" => r # set(memory_cache, disk, key, value, now, "none")
              /\ Faulty(fault # "none")
              /\ memory_cache' = r.mem
              /\ disk' = r.disk
              /\ last' = [NoOp EXCEPT !.op = "set", !.key = key, !.val = value,
                                      !.ret = r.ret, !.exc = r.exc, !.fault = fault]
              /\ shadow' = ShadowSet(key, value, r.ret)
              /\ UNCHANGED <<now, threads, apps>>

Invalidate ==
    \E key \in StoreKeys, fault \in {"none", "remove"} :
        /\ MayFail(fault # "none")
        /\ \E r \in {invalidate(memory_cache, disk, key, fault)} :
              /\ fault # "none" => r # invalidate(memory_cache, disk, key, "none")
              /\ Faulty(fault # "none")
              /\ memory_cache' = r.mem
              /\ disk' = r.disk
              /\ last' = [NoOp EXCEPT !.op = "invalidate", !.key = key,
                                      !.ret = r.ret, !.fault = fault]
              /\ shadow' = ShadowMark({key}, "dropped")
              /\ UNCHANGED <<now, threads, apps>>

Clear ==
    \E failing \in SUBSET Files(disk) :
        /\ MayFail(failing # {})
        /\ \E r \in {clear(memory_cache, disk, failing)} :
              /\ Faulty(failing # {})
              /\ memory_cache' = r.mem
              /\ disk' = r.disk
              /\ last' = [NoOp EXCEPT !.op = "clear", !.count = r.count,
                                      !.fault = IF failing = {} THEN "none"
                                                ELSE "remove"]
              /\ shadow' = ShadowMark(Keys, "dropped")
              /\ UNCHANGED <<now, threads, apps>>

Repair ==
    \E failing \in SUBSET Files(disk) :
        /\ MayFail(failing # {})
        /\ \E r \in {repair(memory_cache, disk, failing)} :
              /\ failing # {} => r # repair(memory_cache, disk, {})
              /\ Faulty(failing # {})
              /\ memory_cache' = r.mem
              /\ disk' = r.disk
              /\ last' = [NoOp EXCEPT !.op = "repair", !.count = r.count,
                                      !.fault = IF failing = {} THEN "none"
                                                ELSE "remove"]
              /\ UNCHANGED <<now, shadow, threads, apps>>

\* the clock advances between operations
Tick ==
    /\ now < MaxTime
    /\ now' = now + 1
    /\ last' = NoOp
    /\ UNCHANGED <<memory_cache, disk, faults, shadow, threads, apps>>

\* a record file is damaged out-of-band
Corrupt ==
    \E key \in Files(disk), kind \in CorruptKinds :
        /\ disk[key].kind = "record"
        /\ Cardinality({k \in Keys : disk[k].kind \in CorruptKinds}) < MaxCorrupt
        /\ disk' = [disk EXCEPT ![key] = [kind |-> kind, value |-> "-", ts |-> 0]]
        /\ last' = [NoOp EXCEPT !.op = "corrupt", !.key = key]
        /\ shadow' = ShadowMark({key}, "memory")
        /\ UNCHANGED <<memory_cache, now, faults, threads, apps>>

\* the cache directory is deleted out-of-band with every file in it; the
\* next set rebuilds it in _ensure_cache_directory, or fails to ("write")
DeleteDir ==
    /\ Files(disk) # {}
    /\ disk' = [k \in Keys |-> NoFile]
    /\ temp' = [k \in Keys |-> NoFile]
    /\ last' = [NoOp EXCEPT !.op = "rmdir"]
    /\ UNCHANGED <<memory_cache, now, faults, shadow, lock, pc, apps>>

\* the I/O call refused during a wrapped call: none, one of get, or one of set
NoFault == <<"none", "none">>

CallFaults ==
    {NoFault} \cup {<<g, "none">> : g \in GetFaults \ {"none"}}
              \cup {<<"none", f>> : f \in SetFaults \ {"none"}}

\* a caller invokes the wrapped function; again: the operation just before
\* was a call with the same arguments that returned, before: what it
\* returned, beforeCalls: how often it ran func
CallWith(args) ==
    \E a \in args, fault \in CallFaults :
        /\ MayFail(fault # NoFault)
        /\ \E r \in {wrapper(memory_cache, disk, a, now, fault[1], fault[2])} :
           LET rep == last.op = "call" /\ last.arg = a /\ last.exc = "none"
           IN /\ (fault # NoFault =>
                    r # wrapper(memory_cache, disk, a, now, "none", "none"))
              /\ Faulty(fault # NoFault)
              /\ memory_cache' = r.mem
              /\ disk' = r.disk
              /\ last' = [NoOp EXCEPT !.op = "call", !.key = cache_key(a, now), !.arg = a,
                                      !.ret = r.ret, !.exc = r.exc,
                                      !.fault = IF fault[1] # "none" THEN fault[1]
                                                ELSE fault[2],
                                      !.src = IF r.fcalls = 0
                                              THEN GetSrc(cache_key(a, now), fault[1])
                                              ELSE "-",
                                      !.fcalls = r.fcalls, !.getExc = r.getExc,
                                      !.setExc = r.setExc, !.again = rep,
                                      !.before = IF rep THEN last.ret ELSE "-",
                                      !.beforeCalls = IF rep THEN last.fcalls ELSE 0]
              /\ shadow' = IF r.stored = "-" THEN shadow
                           ELSE ShadowSet(cache_key(a, now), r.ret, r.stored)
              /\ UNCHANGED <<now, threads, apps>>

\* a call with arguments that render
Call == CallWith(Args)

\* a call with arguments whose rendering raises
CallUnrenderable == CallWith(Unrenderable)

\* the argument tuples of the callers that also use the accessor
AccessorArgs == {"a1", "aLock", "aBad1"}

CallAccessor == CallWith(AccessorArgs)

\* a caller invokes f'.invalidate_cache(a)
InvalidateCache ==
    \E a \in AccessorArgs, fault \in {"none", "remove"} :
        /\ MayFail(fault # "none")
        /\ \E r \in {invalidate_cache(memory_cache, disk, a, now, fault)} :
              /\ fault # "none" => r # invalidate_cache(memory_cache, disk, a, now, "none")
              /\ Faulty(fault # "none")
              /\ memory_cache' = r.mem
              /\ disk' = r.disk
              /\ last' = [NoOp EXCEPT !.op = "invalidate_cache", !.arg = a,
                                      !.key = cache_key(a, now),
                                      !.ret = r.ret, !.fault = fault]
              /\ shadow' = ShadowMark({cache_key(a, now)}, "dropped")
              /\ UNCHANGED <<now, threads, apps>>

(* -------------------------------- main() ------------------------------- *)
\* the statement at pc has run: main() moves on in program order
MainGoto(stmt) == [main EXCEPT !.pc = main_next(stmt)]

\* "except Exception" of main(), or SystemExit: the run ends at stmt
MainAbort(stmt) == [main EXCEPT !.pc = "exit", !.aborted = stmt]

\* try: cache.repair() except Exception: log a warning and go on
MainRepair ==
    /\ main.pc = "repair"
    /\ \E raises \in BOOLEAN :
          IF raises
          THEN /\ main' = [MainGoto("repair") EXCEPT
                              !.log = Append(main.log, "repair"),
                              !.raised = main.raised \cup {"repair"}]
               /\ UNCHANGED <<memory_cache, disk>>
          ELSE \E r \in {repair(memory_cache, disk, {})} :
                  /\ memory_cache' = r.mem
                  /\ disk' = r.disk
                  /\ main' = [MainGoto("repair") EXCEPT
                                 !.log = Append(main.log, "repair")]
    /\ UNCHANGED <<now, faults, last, shadow, threads, reporter, client, wrap>>

\* load_env_file(): returns, or raises and ends the run
MainLoadEnv ==
    /\ main.pc = "env"
    /\ \E raises \in BOOLEAN :
          main' = IF raises THEN MainAbort("env") ELSE MainGoto("env")
    /\ UNCHANGED <<memory_cache, disk, now, faults, last, shadow, threads,
                   reporter, client, wrap>>

\* parser.parse_args(): the flags --clear-cache and --no-cache, or SystemExit
\* (--help, an unknown option)
MainParseArgs ==
    /\ main.pc = "args"
    /\ \/ \E cc \in BOOLEAN, nc \in BOOLEAN :
             main' = [MainGoto("args") EXCEPT !.clear_cache = cc, !.no_cache = nc]
       \/ main' = MainAbort("args")
    /\ UNCHANGED <<memory_cache, disk, now, faults, last, shadow, threads,
                   reporter, client, wrap>>

\* if args.clear_cache: try: cache.clear() except Exception: log a warning
MainClear ==
    /\ main.pc = "clear"
    /\ IF ~main.clear_cache
       THEN main' = MainGoto("clear") /\ UNCHANGED <<memory_cache, disk>>
       ELSE \E raises \in BOOLEAN :
               IF raises
               THEN /\ main' = [MainGoto("clear") EXCEPT
                                   !.log = Append(main.log, "clear"),
                                   !.raised = main.raised \cup {"clear"}]
                    /\ UNCHANGED <<memory_cache, disk>>
               ELSE \E r \in {clear(memory_cache, disk, {})} :
                       /\ memory_cache' = r.mem
                       /\ disk' = r.disk
                       /\ main' = [MainGoto("clear") EXCEPT
                                      !.log = Append(main.log, "clear")]
    /\ UNCHANGED <<now, faults, last, shadow, threads, reporter, client, wrap>>

\* if args.no_cache: cache.ttl = 1
MainNoCache ==
    /\ main.pc = "ttl"
    /\ main' = IF main.no_cache THEN [MainGoto("ttl") EXCEPT !.ttl = 1]
               ELSE MainGoto("ttl")
    /\ UNCHANGED <<memory_cache, disk, now, faults, last, shadow, threads,
                   reporter, client, wrap>>

\* Config(), the search flags, the prompt and the output path: main goes on
\* to the generation, or sys.exit(1) when no input can be read
MainConfigure ==
    /\ main.pc = "config"
    /\ \E exits \in BOOLEAN :
          main' = IF exits THEN MainAbort("config") ELSE MainGoto("config")
    /\ UNCHANGED <<memory_cache, disk, now, faults, last, shadow, threads,
                   reporter, client, wrap>>

\* the operations of the cache one wrapped call invokes: get, then set when
\* func ran and returned
CallLog(r) == IF r.stored = "-" THEN <<"get">> ELSE <<"get", "set">>

\* generate_prd_from_prompt: one more wrapped LLM call, or the PRD is done,
\* or an exception ends the run
MainProcess ==
    /\ main.pc = "process"
    /\ \/ /\ main.calls < MaxCalls
          /\ \E a \in {"a1", "aNone"} :
                \E r \in {wrapper(memory_cache, disk, a, now, "none", "none")} :
                   /\ memory_cache' = r.mem
                   /\ disk' = r.disk
                   /\ main' = [main EXCEPT !.log = main.log \o CallLog(r),
                                           !.calls = main.calls + 1]
       \/ /\ main' = [main EXCEPT !.pc = "done"]
          /\ UNCHANGED <<memory_cache, disk>>
       \/ /\ main' = MainAbort("process")
          /\ UNCHANGED <<memory_cache, disk>>
    /\ UNCHANGED <<now, faults, last, shadow, threads, reporter, client, wrap>>

MainNext ==
    \/ MainRepair \/ MainLoadEnv \/ MainParseArgs \/ MainClear \/ MainNoCache
    \/ MainConfigure \/ MainProcess


(* --------------------------- ProgressReporter --------------------------- *)
\* threading.Lock, the lock of the reporter: acquire() goes through when
\* nobody holds the lock; the holder itself waits like everybody else
reporter_can_acquire(l, t) == l = "free"

\* the caller t of the reporter moves to position p
RAt(t, p) == [reporter.at[t] EXCEPT !.pc = p]

\* a thread calls update(steps, message)
RCallUpdate(t) ==
    /\ reporter.at[t].pc = "idle"
    /\ \E steps \in 0..MaxSteps :
          reporter' = [reporter EXCEPT !.at[t] =
              [pc |-> "u_lock", op |-> "update", steps |-> steps, ret |-> NoInfo]]
    /\ UNCHANGED <<memory_cache, disk, now, faults, last, shadow, threads,
                   main, client, wrap>>

\* a thread calls set_total(total_steps)
RCallSetTotal(t) ==
    /\ reporter.at[t].pc = "idle"
    /\ \E total \in 0..MaxSteps :
          reporter' = [reporter EXCEPT !.at[t] =
              [pc |-> "s_lock", op |-> "set_total", steps |-> total, ret |-> NoInfo]]
    /\ UNCHANGED <<memory_cache, disk, now, faults, last, shadow, threads,
                   main, client, wrap>>

\* a thread calls complete(message)
RCallComplete(t) ==
    /\ reporter.at[t].pc = "idle"
    /\ reporter' = [reporter EXCEPT !.at[t] =
           [pc |-> "c_lock", op |-> "complete", steps |-> 0, ret |-> NoInfo]]
    /\ UNCHANGED <<memory_cache, disk, now, faults, last, shadow, threads,
                   main, client, wrap>>

\* "with self.lock:" of update, set_total and complete
RAcquire(t) ==
    /\ reporter.at[t].pc \in {"u_lock", "s_lock", "c_lock"}
    /\ reporter_can_acquire(reporter.lock, t)
    /\ reporter' = [reporter EXCEPT
           !.lock = t,
           !.at[t] = RAt(t, CASE reporter.at[t].pc = "u_lock" -> "u_body"
                              [] reporter.at[t].pc = "s_lock" -> "s_body"
                              [] OTHER -> "c_body")]
    /\ UNCHANGED <<memory_cache, disk, now, faults, last, shadow, threads,
                   main, client, wrap>>

\* the body of complete, the lock held: remaining_steps, then the call of
\* self.update(remaining_steps, ...) or self.update(0, ...)
RCompleteBody(t) ==
    /\ reporter.at[t].pc = "c_body"
    /\ LET remaining_steps == reporter.total_steps - reporter.current_step
       IN reporter' = [reporter EXCEPT !.at[t] =
              [RAt(t, "u_lock") EXCEPT
                  !.steps = IF remaining_steps > 0 THEN remaining_steps ELSE 0]]
    /\ UNCHANGED <<memory_cache, disk, now, faults, last, shadow, threads,
                   main, client, wrap>>

\* the body of update, the lock held: current_step = min(current_step +
\* steps, total_steps), the progress information, the end of the with block
\* and the return, through complete when complete made the call
RUpdateBody(t) ==
    /\ reporter.at[t].pc = "u_body"
    /\ LET sum == reporter.current_step + reporter.at[t].steps
           cur == IF sum < reporter.total_steps THEN sum ELSE reporter.total_steps
       IN reporter' = [reporter EXCEPT
              !.current_step = cur,
              !.lock = "free",
              !.at[t] = [RAt(t, "idle") EXCEPT
                            !.ret = [step |-> cur, total |-> reporter.total_steps,
                                     completed |-> cur >= reporter.total_steps,
                                     set |-> TRUE]]]
    /\ UNCHANGED <<memory_cache, disk, now, faults, last, shadow, threads,
                   main, client, wrap>>

\* the body of set_total, the lock held: total_steps = max(1, total_steps)
RSetTotalBody(t) ==
    /\ reporter.at[t].pc = "s_body"
    /\ reporter' = [reporter EXCEPT
           !.total_steps = IF reporter.at[t].steps > 1 THEN reporter.at[t].steps ELSE 1,
           !.lock = "free",
           !.at[t] = RAt(t, "idle")]
    /\ UNCHANGED <<memory_cache, disk, now, faults, last, shadow, threads,
                   main, client, wrap>>

\* the next statement of thread t inside the reporter
RStep(t) == RAcquire(t) \/ RCompleteBody(t) \/ RUpdateBody(t) \/ RSetTotalBody(t)

ReporterNext ==
    \E t \in Threads :
       \/ RCallUpdate(t) \/ RCallSetTotal(t) \/ RCallComplete(t)
       \/ RAcquire(t) \/ RCompleteBody(t) \/ RUpdateBody(t) \/ RSetTotalBody(t)

\* the progress reporter of generate_assets and its callers
SpecReporter == Init /\ [][ReporterNext]_vars

(* ------------------------------ OllamaClient ---------------------------- *)
\* what one API request of generate comes back with: the generated text, or
\* an error text
ApiOutcomes == {"v1"} \cup ErrorResults

\* result.startswith("Error:")
startswith_error(result) == result \in ErrorResults

\* the argument tuples (self, prompt, options) generate_with_retry is
\* called with
Prompts == {"a1", "aNone"}

\* generate(a), the wrapper of @cached around its body, at clock reading t,
\* when a request sent now would come back with out: the cached result on a
\* hit, else the body runs, total_requests grows and the result is stored
generate(m, d, a, t, out) ==
    LET key == cache_key(a, t)
        g == get(m, d, key, t, "none")
        hit == g.exc = "none" /\ g.ret # NoneV
        s == set(g.mem, g.disk, key, out, t, "none")
    IN IF hit
       THEN [mem |-> g.mem, disk |-> g.disk, ret |-> g.ret, requests |-> 0]
       ELSE [mem |-> s.mem, disk |-> s.disk, ret |-> out, requests |-> 1]

\* a caller invokes generate_with_retry(prompt): retries = 0,
\* last_response = ""
RetryCall ==
    /\ client.pc \in {"idle", "done"}
    /\ \E a \in Prompts :
          client' = [IdleClient EXCEPT !.pc = "loop", !.prompt = a]
    /\ UNCHANGED <<memory_cache, disk, now, faults, last, shadow, threads,
                   main, reporter, wrap>>

\* one pass of "while retries <= max_retries": generate, return a result
\* that is no error, else count the retry and go to sleep, or leave the loop
\* and return the last response
RetryGenerate ==
    /\ client.pc = "loop"
    /\ client.retries <= max_retries
    /\ \E out \in ApiOutcomes :
          \E r \in {generate(memory_cache, disk, client.prompt, now, out)} :
             /\ memory_cache' = r.mem
             /\ disk' = r.disk
             /\ LET ran == Append(client.executed, r.requests = 1)
                    retries == client.retries + 1
                IN client' =
                     IF ~startswith_error(r.ret)
                     THEN [client EXCEPT !.pc = "done", !.result = r.ret,
                                         !.executed = ran]
                     ELSE IF retries <= max_retries
                     THEN [client EXCEPT !.pc = "sleep", !.retries = retries,
                                         !.last_response = r.ret,
                                         !.executed = ran]
                     ELSE [client EXCEPT !.pc = "done", !.retries = retries,
                                         !.last_response = r.ret,
                                         !.result = r.ret, !.executed = ran]
    /\ UNCHANGED <<now, faults, last, shadow, threads, main, reporter, wrap>>

\* time.sleep(wait_time): the clock moves on, by less than one unit or more
RetrySleep ==
    /\ client.pc = "sleep"
    /\ \E t \in now..MaxTime : now' = t
    /\ client' = [client EXCEPT !.pc = "loop"]
    /\ UNCHANGED <<memory_cache, disk, faults, last, shadow, threads,
                   main, reporter, wrap>>

RetryNext == RetryCall \/ RetryGenerate \/ RetrySleep

\* the LLM client over the process-wide cache
SpecRetry == Init /\ [][RetryNext]_vars

(* ---------------- the operations statement by statement ---------------- *)
\* a temporary file just opened for writing, and one pickle.dump has written
\* only a part of
EmptyFile == [kind |-> "empty", value |-> "-", ts |-> 0]

PartialFile == [kind |-> "partial", value |-> "-", ts |-> 0]

\* "with self.lock" would let a thread in whatever the state of the lock
can_acquire_unlocked(l, t) == TRUE

\* "with self.lock": a thread enters when the RLock is free or its own
can_acquire(l, t) == l = "free" \/ l = t

\* pickle.dump as it would be if set opened the record path itself for
\* writing instead of the temporary file
dump_partial_in_place(d, tmp, key) ==
    [disk |-> [d EXCEPT ![key] = PartialFile], temp |-> tmp]

\* pickle.dump(data, f) under way: the first bytes of the record are in the
\* temporary file
dump_partial(d, tmp, key) ==
    [disk |-> d, temp |-> [tmp EXCEPT ![key] = PartialFile]]

\* the operations threads run, and the first statement of each
StepOps == {"get", "set", "invalidate", "clear", "repair"}

FirstStep(op) ==
    CASE op = "get"        -> "g_mem"
      [] op = "set"        -> "s_mem"
      [] op = "invalidate" -> "i_mem"
      [] op = "clear"      -> "c_mem"
      [] OTHER             -> "r_files"

\* the thread t moves on: to the statement step, or out of the with block
\* ("release") with what the operation returns or raises
Goto(t, step) == [pc EXCEPT ![t].step = step]

Return(t, ret, fault) ==
    [pc EXCEPT ![t].step = "release", ![t].ret = ret,
               ![t].fault = IF fault = "none" THEN pc[t].fault ELSE fault]

Raise(t, exc) == [pc EXCEPT ![t].step = "release", ![t].exc = exc]

\* the values threads store: one that pickles and one that does not
StepValues == {"v1", "lock"}

\* a thread calls an operation of the store and enters "with self.lock"
Acquire ==
    \E t \in Threads, op \in StepOps, key \in StoreKeys, value \in StepValues :
        /\ pc[t].step = "idle"
        /\ can_acquire(lock, t)
        /\ op # "set" => value = "v1"
        /\ op \in {"clear", "repair"} => key = "k1"
        /\ lock' = t
        /\ pc' = [pc EXCEPT ![t] =
                    [IdlePc EXCEPT !.op = op,
                                   !.key = IF op \in {"clear", "repair"} THEN "-" ELSE key,
                                   !.val = IF op = "set" THEN value ELSE "-",
                                   !.step = FirstStep(op), !.ts = now,
                                   !.m0 = memory_cache, !.d0 = disk]]
        /\ UNCHANGED <<memory_cache, disk, now, faults, last, shadow, temp, apps>>

\* get: the look-up in memory_cache, dropping an expired entry
GetMem ==
    \E t \in Threads :
        /\ pc[t].step = "g_mem"
        /\ LET key == pc[t].key
               valid == /\ MemHas(memory_cache, key)
                        /\ now - MemGet(memory_cache, key).ts <= ttl
           IN IF valid
              THEN /\ pc' = Return(t, MemGet(memory_cache, key).value, "none")
                   /\ UNCHANGED memory_cache
              ELSE /\ pc' = Goto(t, "g_file")
                   /\ memory_cache' = MemDel(memory_cache, key)
        /\ UNCHANGED <<disk, now, faults, last, shadow, lock, temp, apps>>

\* get: os.path.exists, open, pickle.load, the TTL test and the removal of an
\* expired or unreadable record
GetFile ==
    \E t \in Threads, fault \in GetFaults :
        /\ pc[t].step = "g_file"
        /\ MayFail(fault # "none")
        /\ LET key == pc[t].key
               file == disk[key]
               rexc == read_exc(file, fault)
               fresh == rexc = "none" /\ now - file.ts <= ttl
               removed == IF fault = "remove" THEN disk
                          ELSE [disk EXCEPT ![key] = NoFile]
           IN /\ fault = "open" => file.kind # "absent"
              /\ fault = "remove" =>
                    /\ file.kind # "absent"
                    /\ ~fresh
                    /\ rexc = "none" \/ rexc \in GetCaught
              /\ IF file.kind = "absent"
                 THEN pc' = Return(t, NoneV, "none") /\ UNCHANGED disk
                 ELSE IF fresh
                 THEN pc' = [pc EXCEPT ![t].step = "g_put", ![t].data = file]
                      /\ UNCHANGED disk
                 ELSE IF rexc = "none" \/ rexc \in GetCaught
                 THEN pc' = Return(t, NoneV, fault) /\ disk' = removed
                 ELSE pc' = Raise(t, rexc) /\ UNCHANGED disk
        /\ Faulty(fault # "none")
        /\ UNCHANGED <<memory_cache, now, last, shadow, lock, temp, apps>>

\* get: self.memory_cache[key] = (data['value'], timestamp)
GetPut ==
    \E t \in Threads :
        /\ pc[t].step = "g_put"
        /\ memory_cache' = MemPut(memory_cache, pc[t].key, pc[t].data.value, pc[t].data.ts)
        /\ pc' = Return(t, pc[t].data.value, "none")
        /\ UNCHANGED <<disk, now, faults, last, shadow, lock, temp, apps>>

\* set: self.memory_cache[key] = (value, timestamp)
SetMem ==
    \E t \in Threads :
        /\ pc[t].step = "s_mem"
        /\ memory_cache' = MemPut(memory_cache, pc[t].key, pc[t].val, pc[t].ts)
        /\ pc' = Goto(t, "s_evict")
        /\ UNCHANGED <<disk, now, faults, last, shadow, lock, temp, apps>>

\* set: the size test and the removal of the oldest entries
SetEvict ==
    \E t \in Threads :
        /\ pc[t].step = "s_evict"
        /\ memory_cache' = limit_memory(memory_cache)
        /\ pc' = Goto(t, "s_open")
        /\ UNCHANGED <<disk, now, faults, last, shadow, lock, temp, apps>>

\* set: _ensure_cache_directory and open(temp_path, 'wb')
SetOpen ==
    \E t \in Threads, fault \in {"none", "write"} :
        /\ pc[t].step = "s_open"
        /\ MayFail(fault # "none")
        /\ IF fault = "write"
           THEN pc' = Return(t, "False", fault) /\ UNCHANGED temp
           ELSE /\ pc' = Goto(t, "s_dump")
                /\ temp' = [temp EXCEPT ![pc[t].key] = EmptyFile]
        /\ Faulty(fault # "none")
        /\ UNCHANGED <<memory_cache, disk, now, last, shadow, lock, apps>>

\* the except clause of set: os.remove(temp_path) if it exists
cleanup(tmp, key) == [tmp EXCEPT ![key] = NoFile]

\* set: pickle.dump starts writing, or rejects the value
SetDump ==
    \E t \in Threads :
        /\ pc[t].step = "s_dump"
        /\ LET dexc == pickle_dump_exc(pc[t].val)
               r == dump_partial(disk, temp, pc[t].key)
           IN IF dexc = "none"
              THEN pc' = Goto(t, "s_close") /\ disk' = r.disk /\ temp' = r.temp
              ELSE IF dexc \in SetCaught
              THEN /\ pc' = Return(t, "False", "none")
                   /\ temp' = cleanup(temp, pc[t].key)
                   /\ UNCHANGED disk
              ELSE pc' = Raise(t, dexc) /\ UNCHANGED <<disk, temp>>
        /\ UNCHANGED <<memory_cache, now, faults, last, shadow, lock, apps>>

\* set: pickle.dump writes the rest and the with block closes the file, or
\* the write fails with OSError
SetClose ==
    \E t \in Threads, fault \in {"none", "write"} :
        /\ pc[t].step = "s_close"
        /\ MayFail(fault # "none")
        /\ IF fault = "write"
           THEN /\ pc' = Return(t, "False", fault)
                /\ temp' = cleanup(temp, pc[t].key)
           ELSE /\ pc' = Goto(t, "s_remove")
                /\ temp' = [temp EXCEPT ![pc[t].key] = pickle_dump(pc[t].val, pc[t].ts)]
        /\ Faulty(fault # "none")
        /\ UNCHANGED <<memory_cache, disk, now, last, shadow, lock, apps>>

\* set: if os.path.exists(cache_path): os.remove(cache_path)
SetRemove ==
    \E t \in Threads, fault \in {"none", "remove"} :
        /\ pc[t].step = "s_remove"
        /\ MayFail(fault # "none")
        /\ fault = "remove" => disk[pc[t].key].kind # "absent"
        /\ IF fault = "remove"
           THEN /\ pc' = Return(t, "False", fault)
                /\ temp' = cleanup(temp, pc[t].key)
                /\ UNCHANGED disk
           ELSE /\ pc' = Goto(t, "s_rename")
                /\ disk' = [disk EXCEPT ![pc[t].key] = NoFile]
                /\ UNCHANGED temp
        /\ Faulty(fault # "none")
        /\ UNCHANGED <<memory_cache, now, last, shadow, lock, apps>>

\* set: os.rename(temp_path, cache_path)
SetRename ==
    \E t \in Threads, fault \in {"none", "rename"} :
        /\ pc[t].step = "s_rename"
        /\ MayFail(fault # "none")
        /\ IF fault = "rename"
           THEN pc' = Return(t, "False", fault) /\ UNCHANGED disk
           ELSE /\ pc' = Return(t, "True", "none")
                /\ disk' = [disk EXCEPT ![pc[t].key] = temp[pc[t].key]]
        /\ temp' = cleanup(temp, pc[t].key)
        /\ Faulty(fault # "none")
        /\ UNCHANGED <<memory_cache, now, last, shadow, lock, apps>>

\* invalidate: the removal from memory_cache
InvalidateMem ==
    \E t \in Threads :
        /\ pc[t].step = "i_mem"
        /\ memory_cache' = MemDel(memory_cache, pc[t].key)
        /\ pc' = [pc EXCEPT ![t].step = "i_file",
                            ![t].ret = IF MemHas(memory_cache, pc[t].key)
                                       THEN "True" ELSE "False"]
        /\ UNCHANGED <<disk, now, faults, last, shadow, lock, temp, apps>>

\* invalidate: the removal of the record file
InvalidateFile ==
    \E t \in Threads, fault \in {"none", "remove"} :
        /\ pc[t].step = "i_file"
        /\ MayFail(fault # "none")
        /\ fault = "remove" => disk[pc[t].key].kind # "absent"
        /\ IF disk[pc[t].key].kind # "absent" /\ fault = "none"
           THEN /\ disk' = [disk EXCEPT ![pc[t].key] = NoFile]
                /\ pc' = Return(t, "True", "none")
           ELSE /\ UNCHANGED disk
                /\ pc' = Return(t, pc[t].ret, fault)
        /\ Faulty(fault # "none")
        /\ UNCHANGED <<memory_cache, now, last, shadow, lock, temp, apps>>

\* clear: len(self.memory_cache) and self.memory_cache.clear()
ClearMem ==
    \E t \in Threads :
        /\ pc[t].step = "c_mem"
        /\ memory_cache' = <<>>
        /\ pc' = [pc EXCEPT ![t].step = "c_files", ![t].count = Len(memory_cache)]
        /\ UNCHANGED <<disk, now, faults, last, shadow, lock, temp, apps>>

\* clear: the loop over the .cache files; os.remove fails for those in failing
ClearFiles ==
    \E t \in Threads, failing \in SUBSET Files(disk) :
        /\ pc[t].step = "c_files"
        /\ MayFail(failing # {})
        /\ disk' = [k \in Keys |-> IF k \in Files(disk) \ failing THEN NoFile ELSE disk[k]]
        /\ pc' = [pc EXCEPT ![t].step = "release", ![t].failing = failing,
                            ![t].count = pc[t].count + Cardinality(Files(disk) \ failing)]
        /\ Faulty(failing # {})
        /\ UNCHANGED <<memory_cache, now, last, shadow, lock, temp, apps>>

\* repair: the loop over the .cache files
RepairFiles ==
    \E t \in Threads, failing \in SUBSET Undeserializable(disk) :
        /\ pc[t].step = "r_files"
        /\ MayFail(failing # {})
        /\ disk' = [k \in Keys |-> IF k \in Undeserializable(disk) \ failing
                                   THEN NoFile ELSE disk[k]]
        /\ pc' = [pc EXCEPT ![t].step = "release", ![t].failing = failing,
                            ![t].count = Cardinality(Undeserializable(disk) \ failing)]
        /\ Faulty(failing # {})
        /\ UNCHANGED <<memory_cache, now, last, shadow, lock, temp, apps>>

\* the wrapped calls of thread t, the innermost first: arg the arguments, at
\* the statement of the wrapper the call is at, ret what func returned
Frame(a) == [arg |-> a, at |-> "get", ret |-> "-"]

Top(t) == Head(wrap[t])

\* the thread leaves the with block (by return or by an exception) and the
\* operation ends
Release ==
    \E t \in Threads :
        /\ pc[t].step = "release"
        /\ lock' = IF lock = t THEN "free" ELSE lock
        /\ pc' = [pc EXCEPT ![t] = IdlePc]
        /\ UNCHANGED <<memory_cache, disk, now, faults, last, shadow, temp, apps>>

\* the process dies at any statement and is started again: the memory tier
\* and the threads are gone, the files stay as they are
Crash ==
    /\ \E t \in Threads : pc[t].step # "idle"
    /\ MayFail(TRUE)
    /\ Faulty(TRUE)
    /\ memory_cache' = <<>>
    /\ lock' = "free"
    /\ pc' = [t \in Threads |-> IdlePc]
    /\ UNCHANGED <<disk, now, last, shadow, temp, apps>>

(* --------------- the wrapper statement by statement -------------------- *)
\* the arguments of the wrapped calls: f returns for one and raises for the
\* other
WrapArgs == {"a1", "aRaise"}

\* the wrapper as it would be if it kept the lock of the store from its get
\* to its return
leave_with_held(l, t) == l

\* the end of "with self.lock" of the get or set the wrapper called
leave_with(l, t) == IF l = t THEN "free" ELSE l

\* the innermost call of thread t moves to the statement at
WrapAt(t, at) == [wrap EXCEPT ![t] = <<[Top(t) EXCEPT !.at = at]>> \o Tail(wrap[t])]

\* the innermost call of thread t returns or raises
WrapPop(t) == [wrap EXCEPT ![t] = Tail(wrap[t])]

\* thread t is executing the wrapped function
InFunc(t) ==
    /\ wrap[t] # <<>>
    /\ Top(t).at \in {"func", "func_again"}
    /\ pc[t].step = "idle"

\* a thread calls a wrapped function; the wrapper builds the cache key
WrapCall(t) ==
    /\ pc[t].step = "idle"
    /\ wrap[t] = <<>>
    /\ \E a \in WrapArgs : wrap' = [wrap EXCEPT ![t] = <<Frame(a)>>]
    /\ UNCHANGED <<memory_cache, disk, now, faults, last, shadow, threads,
                   main, reporter, client>>

\* the wrapper calls self.get(cache_key), which enters "with self.lock"
WrapGet(t) ==
    /\ wrap[t] # <<>>
    /\ Top(t).at = "get"
    /\ pc[t].step = "idle"
    /\ can_acquire(lock, t)
    /\ lock' = t
    /\ pc' = [pc EXCEPT ![t] =
                 [IdlePc EXCEPT !.op = "get", !.key = cache_key(Top(t).arg, now),
                                !.step = FirstStep("get"), !.ts = now,
                                !.m0 = memory_cache, !.d0 = disk]]
    /\ wrap' = WrapAt(t, "in_get")
    /\ UNCHANGED <<memory_cache, disk, now, faults, last, shadow, temp,
                   main, reporter, client>>

\* get leaves its with block and returns to the wrapper: a hit is returned
\* to the caller, after a miss or an exception the wrapper goes on to func
WrapGetReturn(t) ==
    /\ wrap[t] # <<>>
    /\ Top(t).at = "in_get"
    /\ pc[t].step = "release"
    /\ lock' = leave_with(lock, t)
    /\ pc' = [pc EXCEPT ![t] = IdlePc]
    /\ wrap' = IF pc[t].exc = "none" /\ pc[t].ret # NoneV
               THEN WrapPop(t) ELSE WrapAt(t, "func")
    /\ UNCHANGED <<memory_cache, disk, now, faults, last, shadow, temp,
                   main, reporter, client>>

\* func(*args, **kwargs) runs, for as long as it takes, and returns or
\* raises into the outer except block of the wrapper
WrapFunc(t) ==
    /\ wrap[t] # <<>>
    /\ Top(t).at = "func"
    /\ pc[t].step = "idle"
    /\ LET fo == func(Top(t).arg)
       IN wrap' = IF fo.exc = "none"
                  THEN [wrap EXCEPT ![t] =
                           <<[Top(t) EXCEPT !.at = "set", !.ret = fo.ret]>>
                               \o Tail(wrap[t])]
                  ELSE WrapAt(t, "func_again")
    /\ UNCHANGED <<memory_cache, disk, now, faults, last, shadow, threads,
                   main, reporter, client>>

\* func, while it runs, calls a wrapped function: another one or itself
WrapNested(t) ==
    /\ InFunc(t)
    /\ Len(wrap[t]) < MaxDepth
    /\ \E a \in WrapArgs : wrap' = [wrap EXCEPT ![t] = <<Frame(a)>> \o wrap[t]]
    /\ UNCHANGED <<memory_cache, disk, now, faults, last, shadow, threads,
                   main, reporter, client>>

\* "return func(*args, **kwargs)" of the outer except block: func runs
\* again and what it raises reaches the caller
WrapFuncAgain(t) ==
    /\ wrap[t] # <<>>
    /\ Top(t).at = "func_again"
    /\ pc[t].step = "idle"
    /\ wrap' = WrapPop(t)
    /\ UNCHANGED <<memory_cache, disk, now, faults, last, shadow, threads,
                   main, reporter, client>>

\* the wrapper calls self.set(cache_key, result), which enters "with
\* self.lock"
WrapSet(t) ==
    /\ wrap[t] # <<>>
    /\ Top(t).at = "set"
    /\ pc[t].step = "idle"
    /\ can_acquire(lock, t)
    /\ lock' = t
    /\ pc' = [pc EXCEPT ![t] =
                 [IdlePc EXCEPT !.op = "set", !.key = cache_key(Top(t).arg, now),
                                !.val = Top(t).ret,
                                !.step = FirstStep("set"), !.ts = now,
                                !.m0 = memory_cache, !.d0 = disk]]
    /\ wrap' = WrapAt(t, "in_set")
    /\ UNCHANGED <<memory_cache, disk, now, faults, last, shadow, temp,
                   main, reporter, client>>

\* set leaves its with block and the wrapper returns the result of func
WrapSetReturn(t) ==
    /\ wrap[t] # <<>>
    /\ Top(t).at = "in_set"
    /\ pc[t].step = "release"
    /\ lock' = leave_with(lock, t)
    /\ pc' = [pc EXCEPT ![t] = IdlePc]
    /\ wrap' = WrapPop(t)
    /\ UNCHANGED <<memory_cache, disk, now, faults, last, shadow, temp,
                   main, reporter, client>>

\* the next statement of the wrapper in thread t
WrapStep(t) ==
    \/ WrapGet(t) \/ WrapGetReturn(t) \/ WrapFunc(t) \/ WrapNested(t)
    \/ WrapFuncAgain(t) \/ WrapSet(t) \/ WrapSetReturn(t)

\* the threads call wrapped functions, which call wrapped functions; the
\* get and set of the wrappers run statement by statement
WrapStepNext ==
    \/ \E t \in Threads :
          \/ WrapCall(t) \/ WrapGet(t) \/ WrapGetReturn(t) \/ WrapFunc(t)
          \/ WrapNested(t) \/ WrapFuncAgain(t) \/ WrapSet(t) \/ WrapSetReturn(t)
    \/ GetMem \/ GetFile \/ GetPut
    \/ SetMem \/ SetEvict \/ SetOpen \/ SetDump \/ SetClose \/ SetRemove \/ SetRename

\* the threads start with an empty memory tier over the record an earlier
\* run may have left for a wrapped call
InitWrapSteps ==
    /\ memory_cache = <<>>
    /\ \E f \in {NoFile, pickle_dump("v1", 0)} :
           disk = [k \in Keys |-> IF k = cache_key("a1", 0) THEN f ELSE NoFile]
    /\ now = 0
    /\ faults = 0
    /\ last = NoOp
    /\ shadow = [k \in Keys |-> OffShadow]
    /\ InitThreads
    /\ InitApps

SpecWrapSteps == InitWrapSteps /\ [][WrapStepNext]_vars

StepNext ==
    \/ Acquire \/ GetMem \/ GetFile \/ GetPut
    \/ SetMem \/ SetEvict \/ SetOpen \/ SetDump \/ SetClose \/ SetRemove \/ SetRename
    \/ InvalidateMem \/ InvalidateFile \/ ClearMem \/ ClearFiles \/ RepairFiles
    \/ Release \/ Crash

\* the record files the threads find: none, a record of an earlier run, and
\* damaged files, one get deletes and one get raises on
StepFiles ==
    {NoFile, pickle_dump("v1", 0)}
        \cup {[kind |-> c, value |-> "-", ts |-> 0] : c \in {"garbage", "empty"}}

\* the threads start at a clock reading at which the records of the earlier
\* run are still valid, or at one at which they have expired
InitSteps ==
    /\ memory_cache = <<>>
    /\ \E f \in [StoreKeys -> StepFiles] :
           disk = [k \in Keys |-> IF k \in StoreKeys THEN f[k] ELSE NoFile]
    /\ now \in {0, ttl + 1}
    /\ faults = 0
    /\ last = NoOp
    /\ shadow = [k \in Keys |-> OffShadow]
    /\ InitThreads
    /\ InitApps

\* the operations of the store run statement by statement by several threads
SpecSteps == InitSteps /\ [][StepNext]_vars

\* the process starts over the cache directory earlier runs left
InitMain ==
    /\ memory_cache = <<>>
    /\ \E f \in [StoreKeys -> StepFiles] :
           disk = [k \in Keys |-> IF k \in StoreKeys THEN f[k] ELSE NoFile]
    /\ now = 0
    /\ faults = 0
    /\ last = NoOp
    /\ shadow = [k \in Keys |-> OffShadow]
    /\ InitThreads
    /\ InitApps

\* one run of main()
SpecMain == InitMain /\ [][MainNext]_vars

StoreNext == Get \/ Set \/ Invalidate \/ Clear \/ Repair \/ Tick \/ Corrupt

\* the store driven by its direct callers
SpecStore == Init /\ [][StoreNext]_vars

TrackNext == Get \/ Set \/ Invalidate \/ Clear \/ Tick

\* the store driven by its direct callers, the last set of TrackedKey followed
SpecTrack == InitTrack /\ [][TrackNext]_vars

WrapNext == Call \/ Tick \/ Corrupt

\* the store driven through the wrapper
SpecWrap == Init /\ [][WrapNext]_vars

\* what a record file left by an earlier run of the program may hold
OldFiles ==
    {NoFile} \cup {pickle_dump(v, 0) : v \in {"v1", "v2"}}
             \cup {[kind |-> c, value |-> "-", ts |-> 0] : c \in CorruptKinds}

\* the store at start-up: nothing in memory, the cache directory as earlier
\* runs and out-of-band damage left it
InitRepair ==
    /\ memory_cache = <<>>
    /\ \E f \in [StoreKeys -> OldFiles] :
           disk = [k \in Keys |-> IF k \in StoreKeys THEN f[k] ELSE NoFile]
    /\ now = 0
    /\ faults = 0
    /\ last = NoOp
    /\ shadow = [k \in Keys |-> OffShadow]
    /\ InitThreads
    /\ InitApps

\* the items of a keyword mapping, whatever their order
KwItems(kw) == {kw[i] : i \in 1..Len(kw)}

\* a caller about to derive the key of one argument tuple twice, the keyword
\* arguments given in the order kw and then in the order kw2
InitKey ==
    /\ memory_cache = <<>>
    /\ disk = [k \in Keys |-> NoFile]
    /\ now = 0
    /\ faults = 0
    /\ \E a \in Args \cup Unrenderable, kw \in Kwargs, kw2 \in Kwargs :
           /\ KwItems(kw) = KwItems(kw2)
           /\ last = [NoOp EXCEPT !.op = "key", !.arg = a, !.kw = kw, !.kw2 = kw2]
    /\ shadow = [k \in Keys |-> OffShadow]
    /\ InitThreads
    /\ InitApps

\* _get_cache_key(*args, **kwargs): the first derivation, then the second
Derive ==
    /\ last.op = "key"
    /\ last.key2 = "-"
    /\ last' = IF last.key = "-"
               THEN [last EXCEPT !.key = get_cache_key(last.arg, last.kw, now)]
               ELSE [last EXCEPT !.key2 = get_cache_key(last.arg, last.kw2, now)]
    /\ UNCHANGED <<memory_cache, disk, now, faults, shadow, threads, apps>>

\* the clock advances while a caller holds on to what it got
Elapse ==
    /\ now < MaxTime
    /\ now' = now + 1
    /\ UNCHANGED <<memory_cache, disk, faults, last, shadow, threads, apps>>

KeyNext == Derive \/ Elapse

\* key derivation on its own
SpecKey == InitKey /\ [][KeyNext]_vars

FallbackNext == CallUnrenderable \/ Tick

\* the wrapper called with arguments whose key derivation fails
SpecFallback == Init /\ [][FallbackNext]_vars

AccessorNext == CallAccessor \/ InvalidateCache \/ Tick

\* the wrapper and its invalidation accessor
SpecAccessor == Init /\ [][AccessorNext]_vars

DirNext == Get \/ Set \/ DeleteDir \/ Tick

\* the store read and written while its directory is deleted out-of-band
SpecDir == Init /\ [][DirNext]_vars

RepairNext == Get \/ Repair \/ Tick

\* the store repaired at start-up and between the reads of its callers
SpecRepair == InitRepair /\ [][RepairNext]_vars

InvalidateNext == Get \/ Set \/ Invalidate \/ Tick

\* the store read, written and invalidated by its callers
SpecInvalidate == Init /\ [][InvalidateNext]_vars

\* a call of the wrapped function with one fixed argument tuple
CallOne == CallWith({"a1"})

EvictNext == Set \/ CallOne

\* one store written and read by direct callers and through the wrapper
SpecEvict == Init /\ [][EvictNext]_vars

LazyNext == Get \/ Set \/ Invalidate \/ Clear \/ Repair

\* the store used by its direct callers over the record files of an earlier
\* run
SpecLazy == InitSteps /\ [][LazyNext]_vars

SweepNext == Get \/ Set \/ Tick

\* the store written and read by its direct callers, the last set of
\* TrackedKey followed
SpecSweep == InitTrack /\ [][SweepNext]_vars

Next == Get \/ Set \/ Invalidate \/ Clear \/ Repair \/ Tick \/ Corrupt \/ Call

\* every caller at once; SpecStore, SpecTrack and SpecWrap restrict it to one
\* kind of caller
Spec == Init /\ [][Next]_vars

(* ------------------------------- claims -------------------------------- *)
\* C1: of two successive calls of the wrapper with identical arguments, the
\* second within the TTL of the first and nothing in between, func runs at
\* most once in total, both return the same value, and a hit does not run func
C1_WrapperTransparency ==
    (last.op = "call" /\ last.again) =>
        /\ last.beforeCalls + last.fcalls <= 1
        /\ last.exc = "none"
        /\ last.ret = last.before
        /\ (last.src # "-" => last.fcalls = 0)

\* C2: when get or set raises during a wrapped call, the call still ends as
\* func itself ends (its result, or its own exception), and what the cache
\* raised does not reach the caller
C2_NeverLessReliable ==
    (last.op = "call" /\ (last.getExc # "none" \/ last.setExc # "none")) =>
        /\ last.exc = func(last.arg).exc
        /\ last.ret = func(last.arg).ret

\* a wrapped call during which get raised, and which returned func's result
C2_Witness ==
    /\ last.op = "call"
    /\ last.getExc # "none"
    /\ last.exc = "none"
    /\ last.ret = func(last.arg).ret

\* C3: on a cache miss, when func raises, the wrapped call raises that
\* exception and func has run exactly once
C3_ErrorContract ==
    (last.op = "call" /\ last.src = "-" /\ func(last.arg).exc # "none") =>
        /\ last.exc = func(last.arg).exc
        /\ last.fcalls = 1

\* C4: when func returns None, the second of two successive calls with
\* identical arguments is a cache hit: func does not run again
C4_NoneIsCached ==
    (last.op = "call" /\ last.again /\ func(last.arg).ret = NoneV) =>
        last.fcalls = 0

\* C5: a get(k) that follows set(k, v) for a serializable v, within the TTL
\* and with no invalidate or clear of k in between, returns v
C5_RoundTrip ==
    LET sh == shadow[TrackedKey]
    IN (/\ last.op = "get" /\ last.key = TrackedKey
        /\ sh.st \in {"durable", "memory"}
        /\ sh.val \in Picklable
        /\ now - sh.ts <= ttl) =>
           (last.exc = "none" /\ last.ret = sh.val)

\* C5 as amended: a get(k) that follows a set(k, v) which returned True,
\* within the TTL, with no invalidate or clear of k in between and no failed
\* read of k's record, returns v
C5_RoundTripDurable ==
    LET sh == shadow[TrackedKey]
    IN (/\ last.op = "get" /\ last.key = TrackedKey
        /\ sh.st = "durable"
        /\ now - sh.ts <= ttl) =>
           (last.exc = "none" /\ last.ret = sh.val)

\* a get that returns the value of a set that returned True from the durable
\* record, after the key left the memory tier
C5_Witness ==
    /\ last.op = "get" /\ last.key = TrackedKey
    /\ shadow[TrackedKey].st = "durable"
    /\ last.src = "disk"
    /\ last.ret = shadow[TrackedKey].val

\* the entry get(key) finds is older than ttl: the memory entry, or the
\* durable record when the memory tier has none
Expired(key) ==
    \/ MemHas(memory_cache, key) /\ now - MemGet(memory_cache, key).ts > ttl
    \/ /\ ~MemHas(memory_cache, key)
       /\ disk[key].kind = "record"
       /\ now - disk[key].ts > ttl

\* C6: a get(k) that finds an entry older than ttl, in the memory tier or
\* only in the durable tier, returns a miss and leaves k in neither tier
\* (stated for a get during which no I/O call fails)
C6_Expiry ==
    [][(/\ last'.op = "get" /\ now' = now /\ last'.fault = "none"
        /\ Expired(last'.key)) =>
           (/\ last'.exc = "none" /\ last'.ret = NoneV
            /\ ~MemHas(memory_cache', last'.key)
            /\ disk'[last'.key].kind = "absent")]_vars

\* C7: a get(k) that returns a value returns the value of the most recent
\* set(k, .), never that of an earlier set (stated for serializable values)
C7_NeverStale ==
    LET sh == shadow[TrackedKey]
    IN (/\ last.op = "get" /\ last.key = TrackedKey
        /\ last.exc = "none" /\ last.ret # NoneV
        /\ sh.val \in Picklable) =>
           last.ret = sh.val

\* C8: a get(k) that reaches a damaged durable record deletes the file and
\* returns a miss, and does not raise (stated for a get during which no I/O
\* call fails)
C8_CorruptRead ==
    [][(/\ last'.op = "get" /\ now' = now /\ last'.fault = "none"
        /\ disk[last'.key].kind \in CorruptKinds
        /\ ~(/\ MemHas(memory_cache, last'.key)
             /\ now - MemGet(memory_cache, last'.key).ts <= ttl)) =>
           (/\ last'.exc = "none" /\ last'.ret = NoneV
            /\ disk'[last'.key].kind = "absent")]_vars

\* C9: a set(k, v) whose durable write fails, for an I/O error or because v
\* does not serialize, returns False without raising and leaves (v, now) for
\* k in the memory tier
C9_WriteFailure ==
    (last.op = "set" /\ (last.fault # "none" \/ pickle_dump_exc(last.val) # "none")) =>
        /\ last.exc = "none"
        /\ last.ret = "False"
        /\ MemHas(memory_cache, last.key)
        /\ MemGet(memory_cache, last.key).value = last.val
        /\ MemGet(memory_cache, last.key).ts = now

\* C10: between operations the memory index holds at most max_size entries
C10_EvictionBound == Len(memory_cache) <= max_size

\* key is in the store: in the memory tier, or a file <key>.cache exists
Present(m, d, key) == MemHas(m, key) \/ d[key].kind # "absent"

\* C11: invalidate(k) of a present key, with no removal failure, returns true
\* and leaves k in neither tier; a get(k) after it is a miss, a second
\* invalidate(k) (no set in between) returns false, and a get(k) after that
\* is a miss again
C11_IdempotentInvalidate ==
    [][(/\ last'.op = "invalidate" /\ last'.fault = "none"
        /\ Present(memory_cache, disk, last'.key)) =>
           LET k == last'.key
               g1 == get(memory_cache', disk', k, now', "none")
               i2 == invalidate(g1.mem, g1.disk, k, "none")
               g2 == get(i2.mem, i2.disk, k, now', "none")
           IN /\ last'.ret = "True"
              /\ ~Present(memory_cache', disk', k)
              /\ g1.exc = "none" /\ g1.ret = NoneV
              /\ i2.ret = "False"
              /\ ~Present(i2.mem, i2.disk, k)
              /\ g2.exc = "none" /\ g2.ret = NoneV]_vars

\* an invalidate that found its key and removed it, another key staying
C11_Witness ==
    /\ last.op = "invalidate" /\ last.fault = "none" /\ last.ret = "True"
    /\ ~Present(memory_cache, disk, last.key)
    /\ \E k \in StoreKeys \ {last.key} : Present(memory_cache, disk, k)

\* every key of the store is absent from both tiers or holds one valid entry,
\* the same in memory and on disk, as a successful set leaves it
AllValid(m, d, t) ==
    \A k \in Keys :
        \/ ~Present(m, d, k)
        \/ /\ MemHas(m, k) /\ d[k].kind = "record"
           /\ d[k].value = MemGet(m, k).value /\ d[k].ts = MemGet(m, k).ts
           /\ t - d[k].ts <= ttl

\* C12: on a store holding n valid entries, each in memory and on disk,
\* clear() returns n, and afterwards every key is a miss
C12_ClearCount ==
    [][(/\ last'.op = "clear" /\ last'.fault = "none"
        /\ AllValid(memory_cache, disk, now)) =>
           /\ last'.count = Len(memory_cache)
           /\ \A k \in Keys : ~Present(memory_cache', disk', k)]_vars

C14_KeyDeterminism ==
    (last.op = "key" /\ last.key2 # "-") => last.key = last.key2

\* C14 as amended: the same, for arguments whose rendering succeeds
C14_KeyDeterminismRendered ==
    (last.op = "key" /\ last.key2 # "-" /\ last.arg \notin Unrenderable) =>
        last.key = last.key2

\* two derivations for rendered arguments, the keyword arguments given in two
\* different orders and the clock advanced in between, with equal keys
C14_Witness ==
    /\ last.op = "key" /\ last.key2 # "-" /\ last.arg \notin Unrenderable
    /\ last.kw # last.kw2
    /\ now > 0
    /\ last.key = last.key2

\* C15: a wrapped call whose key derivation fails uses the fallback key of
\* the current clock second and is a miss: func runs and the call returns
\* func's own result for these arguments, also when other failing calls
\* happened within the same second
C15_FallbackIsMiss ==
    (last.op = "call" /\ last.arg \in Unrenderable) =>
        /\ last.key = "m.f:fallback_" \o ToString(now)
        /\ last.exc = "none"
        /\ last.fcalls >= 1
        /\ last.ret = func(last.arg).ret

\* C16: a wrapper built by cached(ttl=T) serves a cached result as a hit only
\* while the age of the entry is at most T, whatever the ttl of the store
C16_TtlOverride ==
    (last.op = "call" /\ last.exc = "none" /\ last.fcalls = 0) =>
        /\ MemHas(memory_cache, last.key)
        /\ now - MemGet(memory_cache, last.key).ts <= cached_ttl

\* what C20 asks of invalidate_cache(a) at clock reading t in a store where
\* f'(a) is cached under key: it derives that key and returns true, the
\* next f'(a) runs func, and no other entry of either tier changes
Evicts(a, key, t) ==
    LET i == invalidate_cache(memory_cache, disk, a, t, "none")
        c == wrapper(i.mem, i.disk, a, t, "none", "none")
    IN /\ cache_key(a, t) = key
       /\ i.ret = "True"
       /\ c.fcalls >= 1
       /\ i.mem = MemDel(memory_cache, key)
       /\ \A k \in Keys \ {key} : i.disk[k] = disk[k]

\* C20: after f'(a) has cached its result, invalidate_cache(a), called then
\* or later, derives the key of that call and returns true, the next f'(a)
\* runs func again, and the entries of other arguments are unchanged
C20_InvalidationAccessor ==
    (last.op = "call" /\ last.exc = "none" /\ Present(memory_cache, disk, last.key)) =>
        \A t \in now..MaxTime : Evicts(last.arg, last.key, t)

\* C20 as amended: the same for arguments whose key derivation succeeds, in
\* every state in which an entry for f'(a) is in the store and for an
\* invalidate_cache during which no removal fails
C20_InvalidationAccessorRendered ==
    \A a \in AccessorArgs \ Unrenderable :
        Present(memory_cache, disk, cache_key(a, now)) =>
            \A t \in now..MaxTime : Evicts(a, cache_key(a, now), t)

\* invalidate_cache has just removed the durable entry of one argument tuple
\* that had left the memory tier, while the entry of another stays
C20_Witness ==
    /\ last.op = "invalidate_cache" /\ last.ret = "True" /\ last.fault = "none"
    /\ last.arg \notin Unrenderable
    /\ ~Present(memory_cache, disk, last.key)
    /\ \E a \in AccessorArgs \ {last.arg} : Present(memory_cache, disk, cache_key(a, now))

\* C19: the get that follows the out-of-band deletion of the cache directory
\* returns a miss and does not raise; a set on the deleted directory does not
\* raise, and either rebuilds the directory and writes the record, or keeps
\* the entry in memory only
C19_DirectoryDeleted ==
    [][/\ (last.op = "rmdir" /\ last'.op = "get") =>
              (last'.exc = "none" /\ last'.ret = NoneV)
       /\ (last.op = "rmdir" /\ last'.op = "set") =>
              /\ last'.exc = "none"
              /\ \/ last'.ret = "True" /\ disk'[last'.key].kind = "record"
                 \/ /\ last'.ret = "False"
                    /\ MemHas(memory_cache', last'.key)
                    /\ disk'[last'.key].kind = "absent"]_vars

\* C17: at every statement of set(k, v), a failure or a crash of the process
\* at that statement included, the file at the record path of every key is
\* left as it was or becomes absent or one complete serialized record; no
\* step puts a partially written record at a record path
C17_AtomicDurableWrite ==
    [][\A k \in Keys :
          disk'[k] # disk[k] => disk'[k].kind \in {"absent", "record"}]_vars

\* a set is in the middle of pickle.dump: its temporary file holds a part of
\* the new record while the record path still holds the complete old one
C17_Witness ==
    \E t \in Threads :
        /\ pc[t].op = "set" /\ pc[t].step = "s_close"
        /\ temp[pc[t].key].kind = "partial"
        /\ disk[pc[t].key].kind = "record"

\* what the operation of thread t leaves and gives back is what the whole
\* operation does when applied in one piece to the store as t found it
Serial(t) ==
    LET p == pc[t]
        same(r) == /\ memory_cache = r.mem /\ disk = r.disk
                   /\ p.exc = r.exc /\ p.ret = r.ret
        counted(r) == /\ memory_cache = r.mem /\ disk = r.disk
                      /\ p.exc = "none" /\ p.count = r.count
    IN CASE p.op = "get"        -> same(get(p.m0, p.d0, p.key, p.ts, p.fault))
         [] p.op = "set"        -> same(set(p.m0, p.d0, p.key, p.val, p.ts, p.fault))
         [] p.op = "invalidate" -> same(invalidate(p.m0, p.d0, p.key, p.fault))
         [] p.op = "clear"      -> counted(clear(p.m0, p.d0, p.failing))
         [] OTHER               -> counted(repair(p.m0, p.d0, p.failing))

\* C18: a thread inside get, set, invalidate, clear or repair holds the lock
\* of the store at every statement that reads or writes memory_cache or the
\* record files, so at most one thread is inside at a time, and each
\* operation ends as the whole operation applied to the store at the moment
\* it entered: the concurrent run equals the operations in the order the
\* threads took the lock
C18_LockSerializes ==
    \A t \in Threads :
        /\ pc[t].step # "idle" => lock = t
        /\ pc[t].step = "release" => Serial(t)

\* one thread is leaving a get that loaded from its file a record stored
\* after the start, while the other thread is outside the store
C18_Witness ==
    \E t \in Threads :
        /\ pc[t].op = "get" /\ pc[t].step = "release" /\ pc[t].ret = "v1"
        /\ lock = t
        /\ now = ttl + 1
        /\ ~MemHas(pc[t].m0, pc[t].key)
        /\ \A u \in Threads \ {t} : pc[u].step = "idle"

\* the entries of m that are not in m2
Swept(m, m2) == {i \in 1..Len(m) : ~MemHas(m2, m[i].key)}

\* C22: a set that finds more than max_size entries after its insert removes
\* exactly max(1, count // 10) of them, none younger than an entry it keeps,
\* and leaves at most max_size entries in the memory tier
C22_EvictionSweep ==
    [][last'.op = "set" =>
          LET m1 == MemPut(memory_cache, last'.key, last'.val, now)
              gone == Swept(m1, memory_cache')
          IN Len(m1) > max_size =>
                /\ Cardinality(gone) = Max(1, Len(m1) \div 10)
                /\ Len(memory_cache') = Len(m1) - Cardinality(gone)
                /\ \A i \in gone, j \in (1..Len(m1)) \ gone : m1[i].ts <= m1[j].ts
                /\ Len(memory_cache') <= max_size]_vars

\* the record file of key holds a record that has outlived the TTL at clock
\* reading t
ExpiredRecord(d, key, t) == d[key].kind = "record" /\ t - d[key].ts > ttl

MemStampKept(key) ==
    MemHas(memory_cache', key) =>
        LET e == MemGet(memory_cache', key)
        IN \/ MemHas(memory_cache, key) /\ e = MemGet(memory_cache, key)
           \/ /\ last'.op = "get" /\ last'.key = key
              /\ disk[key].kind = "record"
              /\ e.value = disk[key].value /\ e.ts = disk[key].ts
           \/ last'.op = "set" /\ last'.key = key /\ e.ts = now

\* the durable record of key after a step is the one before it, or gone, or
\* the record a set has just stamped with the time of the set
FileStampKept(key) ==
    \/ disk'[key] = disk[key]
    \/ disk'[key].kind = "absent"
    \/ /\ last'.op = "set" /\ last'.key = key
       /\ disk'[key] = pickle_dump(last'.val, now)

\* C24: the timestamp of an entry, in either tier, is the time of the set
\* that created it: no get, whether it hits in memory or reloads the memory
\* tier from a record, gives an entry a later one, and a get returns a value
\* only from an entry set at most ttl ago, however often it was read
C24_ReadsKeepTimestamp ==
    [][/\ \A k \in StoreKeys : MemStampKept(k) /\ FileStampKept(k)
       /\ (last'.op = "get" /\ last'.exc = "none" /\ last'.ret # NoneV) =>
              /\ MemHas(memory_cache', last'.key)
              /\ MemGet(memory_cache', last'.key).value = last'.ret
              /\ now - MemGet(memory_cache', last'.key).ts <= ttl]_vars

\* a get has just reloaded the memory tier from a record written at an
\* earlier clock reading, and the entry carries the time of its set
C24_Witness ==
    /\ last.op = "get" /\ last.src = "disk" /\ last.ret # NoneV
    /\ MemHas(memory_cache, last.key)
    /\ MemGet(memory_cache, last.key).ts < now
    /\ MemGet(memory_cache, last.key).ts = disk[last.key].ts

\* every key held by both tiers has one value and one timestamp
TiersAgree(m, d) ==
    \A k \in Keys :
        (MemHas(m, k) /\ d[k].kind = "record") =>
            /\ MemGet(m, k).value = d[k].value
            /\ MemGet(m, k).ts = d[k].ts

\* the operation a step carried out met no failure of its durable I/O: no
\* refused call, nothing raised, and a set wrote its record
NoFailure(l) ==
    /\ l.fault = "none" /\ l.exc = "none"
    /\ l.op = "set" => l.ret = "True"

\* C25: between operations, as long as no durable I/O operation has failed,
\* a key present in both tiers has the same value and the same timestamp in
\* both: the tiers agree at the start, and every operation that meets no
\* failure keeps them agreeing
C25_TierConsistency ==
    [][/\ last.op = "init" => TiersAgree(memory_cache, disk)
       /\ (TiersAgree(memory_cache, disk) /\ NoFailure(last')) =>
              TiersAgree(memory_cache', disk')]_vars

\* a set has just replaced the expired record of an earlier run, and memory
\* and record hold the same value with the same new timestamp
C25_Witness ==
    /\ last.op = "set" /\ last.ret = "True" /\ faults = 0
    /\ now = ttl + 1
    /\ MemHas(memory_cache, last.key)
    /\ disk[last.key] = pickle_dump(last.val, now)
    /\ MemGet(memory_cache, last.key).ts = now
    /\ \E k \in StoreKeys \ {last.key} : ExpiredRecord(disk, k, now)

\* C26: while set(k, v) runs over a valid durable record of k, the record
\* path of k holds the complete old record or the complete new one at every
\* statement, so also at one where the process dies or the operation fails
C26_OverwriteKeepsRecord ==
    \A t \in Threads :
        LET p == pc[t]
        IN (/\ p.op = "set" /\ p.step # "idle"
            /\ p.d0[p.key].kind = "record"
            /\ p.ts - p.d0[p.key].ts <= ttl) =>
               disk[p.key] \in {p.d0[p.key], pickle_dump(p.val, p.ts)}

\* the keys a set step has swept out of the memory tier keep their record
\* files as they were
SweepKeepsFiles ==
    last'.op = "set" =>
        \A k \in MemKeys(memory_cache) \ (MemKeys(memory_cache') \cup {last'.key}) :
            disk'[k] = disk[k]

\* a get of TrackedKey, with no refused I/O call, after its entry was swept
\* out of the memory tier and within the TTL of its last set, the value set
\* being serializable and the outcome of that set one of sts
GetAfterSweep(sts) ==
    /\ last'.op = "get" /\ last'.key = TrackedKey /\ last'.fault = "none"
    /\ shadow[TrackedKey].st \in sts
    /\ shadow[TrackedKey].val \in Picklable
    /\ ~MemHas(memory_cache, TrackedKey)
    /\ now - shadow[TrackedKey].ts <= ttl

\* the get is a hit on the value last set and puts the key back in memory
HitAndReload ==
    /\ last'.exc = "none" /\ last'.ret = shadow[TrackedKey].val
    /\ MemHas(memory_cache', TrackedKey)
    /\ MemGet(memory_cache', TrackedKey).value = shadow[TrackedKey].val

\* C27: a key the size sweep removes from the memory tier keeps its durable
\* record unchanged, and the get that follows within the TTL returns the
\* value last set for it and puts the key back in the memory tier
C27_EvictionLosesNothing ==
    [][/\ SweepKeepsFiles
       /\ GetAfterSweep({"durable", "memory"}) => HitAndReload]_vars

\* C27 as amended: the same for a key whose last set returned True, that is,
\* wrote its durable record
C27_EvictionLosesNothingDurable ==
    [][/\ SweepKeepsFiles
       /\ GetAfterSweep({"durable"}) => HitAndReload]_vars

\* a get has just put a swept key back in the memory tier from its record,
\* beside the key whose set had swept it out
C27_Witness ==
    /\ last.op = "get" /\ last.key = TrackedKey /\ last.src = "disk"
    /\ shadow[TrackedKey].st = "durable"
    /\ last.ret = shadow[TrackedKey].val
    /\ MemKeys(memory_cache) = StoreKeys

\* the positions of op in the log of cache operations
LogAt(op) == {i \in 1..Len(main.log) : main.log[i] = op}

\* C21: main() invokes repair() of the process-wide cache exactly once and
\* before any get, set or clear on it; an exception from repair does not end
\* the run; and when the generation starts, the requested clear() has been
\* invoked, before every get and set, and the requested cache.ttl = 1 has
\* been assigned
C21_StartupOrdering ==
    /\ main.log # <<>> => main.log[1] = "repair"
    /\ Cardinality(LogAt("repair")) <= 1
    /\ main.pc \in {"process", "done"} => Cardinality(LogAt("repair")) = 1
    /\ main.aborted \notin {"repair", "clear"}
    /\ main.pc \in {"process", "done"} =>
          /\ main.clear_cache => (Len(main.log) >= 2 /\ main.log[2] = "clear")
          /\ main.no_cache => main.ttl = 1
          /\ ~main.clear_cache => LogAt("clear") = {}
          /\ ~main.no_cache => main.ttl = "default"

\* a run in which repair raised and which still went on, cleared the cache,
\* set cache.ttl = 1 and made a wrapped call that missed and stored
C21_Witness ==
    /\ main.pc = "done"
    /\ "repair" \in main.raised
    /\ main.clear_cache /\ main.no_cache
    /\ LogAt("set") # {}

\* thread t has called complete() and complete has not returned
InComplete(t) == reporter.at[t].op = "complete" /\ reporter.at[t].pc # "idle"

\* complete() has returned to thread t
CompleteReturned(t) ==
    /\ reporter.at[t].op = "complete"
    /\ reporter.at[t].pc = "idle"
    /\ reporter.at[t].ret.set

\* C29: ProgressReporter.complete() always terminates: a thread inside
\* complete() either can execute its next statement or waits for a lock another
\* thread holds, and when complete() returns current_step has been advanced to
\* total_steps and the returned progress information has completed = true
C29_CompleteTerminates ==
    \A t \in Threads :
       /\ InComplete(t) =>
             \/ ENABLED RStep(t)
             \/ reporter.lock \in Threads \ {t}
       /\ CompleteReturned(t) =>
             /\ reporter.at[t].ret.completed
             /\ reporter.at[t].ret.step = reporter.at[t].ret.total

\* C30: generate_with_retry retries on failure: it makes at most
\* max_retries + 1 attempts, every attempt after the first executes the API
\* request of generate again, and it returns a result that is no error, or
\* the last error after max_retries + 1 attempts
C30_RetryReexecutes ==
    /\ Len(client.executed) <= max_retries + 1
    /\ \A i \in 2..Len(client.executed) : client.executed[i]
    /\ client.pc = "done" =>
          \/ ~startswith_error(client.result)
          \/ /\ Len(client.executed) = max_retries + 1
             /\ client.result = client.last_response

\* C28: the wrapper holds the lock of the store only inside its get and its
\* set: a thread executing the wrapped function, at whatever depth of nested
\* wrapped calls, does not hold it, so whenever no thread is inside get or
\* set the lock can be taken by any thread, and a thread whose wrapper is
\* about to call get or set either enters or waits for another thread that
\* is inside get or set and can go on
C28_NoLockDuringFunc ==
    /\ \A t \in Threads : InFunc(t) => lock # t
    /\ \A t \in Threads : lock = t => pc[t].step # "idle"
    /\ (\A u \in Threads : pc[u].step = "idle") =>
          \A t \in Threads : can_acquire(lock, t)
    /\ \A t \in Threads :
          (wrap[t] # <<>> /\ Top(t).at \in {"get", "set"}) =>
             \/ ENABLED WrapStep(t)
             \/ \E u \in Threads \ {t} : lock = u /\ pc[u].step # "idle"

\* one thread executes a wrapped function called from a wrapped function,
\* after its own get and set went through, while the other thread is in the
\* middle of the set of its wrapper, the lock in its hands
C28_Witness ==
    \E t \in Threads, u \in Threads :
        /\ t # u
        /\ InFunc(t) /\ Len(wrap[t]) = MaxDepth
        /\ pc[u].op = "set" /\ pc[u].step = "s_close"
        /\ lock = u
        /\ MemHas(memory_cache, cache_key("a1", 0))
====
